---- MODULE Spec2Model ----
(***************************************************************************)
(* Model of the oneOf combinator (keywords/one_of.rs) and of the           *)
(* standalone discriminator keyword (keywords/discriminator.rs).           *)
(*                                                                         *)
(* A JSON value is abstracted to the parts the two keywords look at:       *)
(*   - an instance is an object or not, carries the discriminator property *)
(*     "kind" (absent, a non-string value, or a string) and a payload that *)
(*     decides which sub-schemas accept it;                                *)
(*   - a oneOf item has an optional "$ref" member and compiles (or fails   *)
(*     to compile) to a node that accepts a set of payloads;               *)
(*   - a discriminator object has an optional "propertyName" and an        *)
(*     optional "mapping".                                                 *)
(* Option<T> is a sequence of length 0 (None) or 1 (Some).  Indices are    *)
(* 0-based as in the source; schemas[idx] is Node(self, idx).              *)
(***************************************************************************)
EXTENDS Integers, Sequences, FiniteSets, TLC

\* Longest oneOf array that is compiled.
MaxAlts == 2

Payloads == {"p", "q"}
Refs == {"#/defs/A", "#/defs/B"}
\* Discriminant strings an instance may carry; only MappedTags may be keys
\* of a mapping object.
Tags == {"a", "z"}
MappedTags == {"a"}

None == <<>>
Some(x) == <<x>>
is_some(o) == Len(o) = 1
unwrap(o) == o[1]

\* serde_json::Value::as_str on a member abstracted to a string or "nonstring"
as_str(v) == IF v = "nonstring" THEN None ELSE Some(v)

(***************************************************************************)
(* Instances                                                               *)
(***************************************************************************)
Instances ==
    { i \in [obj : BOOLEAN, kind : {"absent", "nonstring"} \cup Tags, payload : Payloads] :
        ~i.obj => i.kind = "absent" }

\* serde_json::Value::get with a string key: None unless the value is an
\* object that has the member.
get(instance, prop_name) ==
    IF instance.obj /\ prop_name = "kind" /\ instance.kind # "absent"
    THEN Some(instance.kind)
    ELSE None

(***************************************************************************)
(* Compiled sub-schema nodes (SchemaNode): a node accepts a set of         *)
(* payloads and reports its errors below its own schema path.              *)
(***************************************************************************)
node_is_valid(node, instance) == instance.payload \in node.accepts

no_error == <<>>
error(e) == <<e>>

node_validate(node, instance) ==
    IF node_is_valid(node, instance)
    THEN no_error
    ELSE error([kind |-> "NodeError", schema_path |-> node.path])

\* BasicOutput of a node, rooted at the node's path
node_apply_rooted(node, instance) ==
    IF node_is_valid(node, instance)
    THEN [tag |-> "Valid", at |-> node.path, errors |-> <<>>]
    ELSE [tag |-> "Invalid", at |-> node.path, errors |-> <<node.path>>]

(***************************************************************************)
(* Inputs of OneOfValidator::compile                                       *)
(***************************************************************************)
\* A oneOf array element: its "$ref" member and what compile_validators
\* makes of it (an error, or a node accepting `accepts`).
Items ==
    { it \in [ref : {"absent", "nonstring"} \cup Refs, compiles : BOOLEAN, accepts : SUBSET Payloads] :
        ~it.compiles => (it.accepts = {} /\ it.ref \in {"absent", "nonstring"}) }

RECURSIVE SeqsUpTo(_, _)
SeqsUpTo(S, n) ==
    IF n = 0 THEN { <<>> }
    ELSE LET shorter == SeqsUpTo(S, n - 1)
         IN shorter \cup { Append(s, x) : s \in { t \in shorter : Len(t) = n - 1 }, x \in S }

\* The keyword's value: an array of items, or some other JSON value.
OneOfSchemas ==
    { [array |-> TRUE, items |-> s] : s \in SeqsUpTo(Items, MaxAlts) }
      \cup { [array |-> FALSE, items |-> <<>>] }

MappingEntries ==
    UNION { [D -> Refs \cup {"nonstring"}] : D \in SUBSET MappedTags }

\* What resolve_fragment("#/discriminator") gives: not found, or a value
\* that is an object or not, with an optional propertyName member and an
\* optional mapping member (an object with `entries`, or another value).
NoEntries == [k \in {} |-> "absent"]
Discriminators ==
    { [found |-> f, object |-> FALSE, propertyName |-> "absent", mapping |-> "absent",
       entries |-> NoEntries] : f \in BOOLEAN }
      \cup { [found |-> TRUE, object |-> TRUE, propertyName |-> pn, mapping |-> m,
              entries |-> NoEntries] :
                pn \in {"absent", "nonstring", "kind"}, m \in {"absent", "notobject"} }
      \cup { [found |-> TRUE, object |-> TRUE, propertyName |-> pn, mapping |-> "object",
              entries |-> e] :
                pn \in {"absent", "nonstring", "kind"}, e \in MappingEntries }

\* What ref_::compile makes of each reference string: an error, or a
\* validator accepting `accepts`.
Targets ==
    { [resolves |-> FALSE, accepts |-> {}] }
      \cup { [resolves |-> TRUE, accepts |-> a] : a \in SUBSET Payloads }
RefTargets == [Refs -> Targets]

EmptyMap == [k \in {} |-> 0]
insert(map, k, v) == [x \in DOMAIN map \cup {k} |-> IF x = k THEN v ELSE map[x]]

NoOneOf ==
    [schemas |-> <<>>, schema_path |-> <<>>, discriminated_schemas |-> EmptyMap,
     discriminated_mapping |-> EmptyMap, discriminator_property_name |-> None]

NoDiscriminator ==
    [schema_path |-> <<>>, property_name |-> "", mapping |-> EmptyMap]

(***************************************************************************)
(* OneOfValidator::compile                                                 *)
(***************************************************************************)
Panic == [status |-> "panic", error |-> "", validator |-> NoOneOf]
Err(kind) == [status |-> "err", error |-> kind, validator |-> NoOneOf]
Ok(v) == [status |-> "ok", error |-> "", validator |-> v]

\* Lines 32-54: the descriptor read from the resolved discriminator value.
\* Each expect() on a missing or mistyped member panics.
read_discriminator(discriminator) ==
    IF ~discriminator.found
    THEN [panic |-> FALSE, name |-> None, mapping |-> EmptyMap]
    ELSE IF discriminator.propertyName = "nonstring"
    THEN [panic |-> TRUE, name |-> None, mapping |-> EmptyMap]
    ELSE LET name == IF discriminator.propertyName = "absent"
                     THEN None ELSE Some(discriminator.propertyName)
         IN  IF discriminator.mapping = "absent"
             THEN [panic |-> TRUE, name |-> name, mapping |-> EmptyMap]
             ELSE IF discriminator.mapping = "notobject"
             THEN [panic |-> FALSE, name |-> name, mapping |-> EmptyMap]
             ELSE IF \E k \in DOMAIN discriminator.entries :
                        ~is_some(as_str(discriminator.entries[k]))
             THEN [panic |-> TRUE, name |-> name, mapping |-> EmptyMap]
             ELSE [panic |-> FALSE, name |-> name, mapping |-> discriminator.entries]

\* Lines 57-67: the loop over the array, from position idx on.
RECURSIVE compile_items(_, _, _, _, _)
compile_items(items, idx, schemas, discriminated_schemas, descriptor) ==
    IF idx = Len(items)
    THEN Ok([schemas |-> schemas,
             schema_path |-> <<"oneOf">>,
             discriminated_schemas |-> discriminated_schemas,
             discriminated_mapping |-> descriptor.mapping,
             discriminator_property_name |-> descriptor.name])
    ELSE LET item == items[idx + 1]
             node == [accepts |-> item.accepts, path |-> <<"oneOf", ToString(idx)>>]
         IN  IF ~item.compiles
             THEN Err("SubSchema")
             ELSE IF is_some(descriptor.name) /\ item.ref # "absent"
             THEN IF ~is_some(as_str(item.ref))
                  THEN Panic
                  ELSE compile_items(items, idx + 1, Append(schemas, node),
                                     insert(discriminated_schemas, item.ref, idx), descriptor)
             ELSE compile_items(items, idx + 1, Append(schemas, node),
                                discriminated_schemas, descriptor)

\* build_url("#/discriminator") joins a fragment to the scope URL and is
\* taken to succeed; a keyword value that is an array of any length is
\* compiled.
OneOfValidator_compile(schema, discriminator) ==
    IF schema.array
    THEN LET descriptor == read_discriminator(discriminator)
         IN  IF descriptor.panic
             THEN Panic
             ELSE compile_items(schema.items, 0, <<>>, EmptyMap, descriptor)
    ELSE Err("TypeMismatchArray")

(***************************************************************************)
(* OneOfValidator: validation                                              *)
(***************************************************************************)
Node(self, idx) == self.schemas[idx + 1]
Indices(self) == 0 .. (Len(self.schemas) - 1)

\* The position the discriminator dispatches to, if any (lines 91-96).
discriminated_idx(self, instance) ==
    IF is_some(self.discriminator_property_name)
    THEN LET schema_name == get(instance, unwrap(self.discriminator_property_name))
         IN  IF is_some(schema_name)
             THEN LET name == as_str(unwrap(schema_name))
                  IN  IF ~is_some(name) THEN None
                      ELSE IF unwrap(name) \notin DOMAIN self.discriminated_mapping THEN None
                      ELSE LET schema_ref == self.discriminated_mapping[unwrap(name)]
                           IN  IF schema_ref \notin DOMAIN self.discriminated_schemas
                               THEN None
                               ELSE Some(self.discriminated_schemas[schema_ref])
             ELSE None
    ELSE None

\* Variant that reports a failed dispatch as an error instead of None.
OneOf_get_discriminated_valid_strict(self, instance) ==
    LET node_idx == discriminated_idx(self, instance)
    IN  IF is_some(node_idx)
        THEN Some(node_validate(Node(self, unwrap(node_idx)), instance))
        ELSE IF is_some(self.discriminator_property_name)
        THEN Some(error([kind |-> "OneOfNotValid", schema_path |-> self.schema_path]))
        ELSE None

OneOf_get_discriminated_valid(self, instance) ==
    LET node_idx == discriminated_idx(self, instance)
    IN  IF is_some(node_idx)
        THEN Some(node_validate(Node(self, unwrap(node_idx)), instance))
        ELSE None

RECURSIVE first_valid_from(_, _, _)
first_valid_from(self, instance, idx) ==
    IF idx >= Len(self.schemas) THEN None
    ELSE IF node_is_valid(Node(self, idx), instance) THEN Some(idx)
    ELSE first_valid_from(self, instance, idx + 1)

get_first_valid(self, instance) == first_valid_from(self, instance, 0)

\* Variant of are_others_valid that starts one position too late.
are_others_valid_skip_two(self, instance, idx) ==
    \E j \in Indices(self) : j >= idx + 2 /\ node_is_valid(Node(self, j), instance)

are_others_valid(self, instance, idx) ==
    \E j \in Indices(self) : j >= idx + 1 /\ node_is_valid(Node(self, j), instance)

OneOf_is_valid(self, instance) ==
    LET first_valid_idx == get_first_valid(self, instance)
    IN  IF is_some(first_valid_idx)
        THEN ~are_others_valid(self, instance, unwrap(first_valid_idx))
        ELSE FALSE

\* Variant that reports the ambiguity at the first passing sub-schema.
OneOf_validate_subschema_path(self, instance) ==
    LET discriminator_validation == OneOf_get_discriminated_valid(self, instance)
        first_valid_idx == get_first_valid(self, instance)
    IN  IF is_some(discriminator_validation)
        THEN unwrap(discriminator_validation)
        ELSE IF is_some(first_valid_idx)
        THEN IF are_others_valid(self, instance, unwrap(first_valid_idx))
             THEN error([kind |-> "OneOfMultipleValid",
                         schema_path |-> Node(self, unwrap(first_valid_idx)).path])
             ELSE no_error
        ELSE error([kind |-> "OneOfNotValid", schema_path |-> self.schema_path])

\* Variant that still checks exactness after a discriminator dispatch.
OneOf_validate_exact_after_dispatch(self, instance) ==
    LET discriminator_validation == OneOf_get_discriminated_valid(self, instance)
        first_valid_idx == get_first_valid(self, instance)
    IN  IF is_some(discriminator_validation) /\ unwrap(discriminator_validation) # no_error
        THEN unwrap(discriminator_validation)
        ELSE IF is_some(first_valid_idx)
        THEN IF are_others_valid(self, instance, unwrap(first_valid_idx))
             THEN error([kind |-> "OneOfMultipleValid", schema_path |-> self.schema_path])
             ELSE no_error
        ELSE error([kind |-> "OneOfNotValid", schema_path |-> self.schema_path])

OneOf_validate(self, instance) ==
    LET discriminator_validation == OneOf_get_discriminated_valid(self, instance)
        first_valid_idx == get_first_valid(self, instance)
    IN  IF is_some(discriminator_validation)
        THEN unwrap(discriminator_validation)
        ELSE IF is_some(first_valid_idx)
        THEN IF are_others_valid(self, instance, unwrap(first_valid_idx))
             THEN error([kind |-> "OneOfMultipleValid", schema_path |-> self.schema_path])
             ELSE no_error
        ELSE error([kind |-> "OneOfNotValid", schema_path |-> self.schema_path])

\* The alternatives whose is_valid/validate a call of validate runs.
validate_evaluated(self, instance) ==
    LET node_idx == discriminated_idx(self, instance)
        first_valid_idx == get_first_valid(self, instance)
        others == { j \in Indices(self) :
                      /\ is_some(first_valid_idx)
                      /\ j > unwrap(first_valid_idx)
                      /\ \A k \in Indices(self) :
                            (k > unwrap(first_valid_idx) /\ k < j)
                               => ~node_is_valid(Node(self, k), instance) }
    IN  IF is_some(node_idx) THEN { unwrap(node_idx) }
        ELSE IF is_some(first_valid_idx)
        THEN { j \in Indices(self) : j <= unwrap(first_valid_idx) } \cup others
        ELSE Indices(self)

RECURSIVE concat_errors(_)
concat_errors(outputs) ==
    IF outputs = <<>> THEN <<>>
    ELSE Head(outputs).errors \o concat_errors(Tail(outputs))

IsValidOutput(output) == output.tag = "Valid"
IsInvalidOutput(output) == output.tag = "Invalid"

NoOutput == [panicked |-> FALSE, tag |-> "None", branches |-> <<>>, errors |-> <<>>]

OneOf_apply(self, instance) ==
    LET outputs == [i \in 1 .. Len(self.schemas) |-> node_apply_rooted(self.schemas[i], instance)]
        successes == SelectSeq(outputs, IsValidOutput)
        failures == SelectSeq(outputs, IsInvalidOutput)
    IN  IF Len(successes) = 1
        THEN [panicked |-> FALSE, tag |-> "Valid",
              branches |-> <<successes[1].at>>, errors |-> <<>>]
        ELSE IF Len(successes) > 1
        THEN [panicked |-> FALSE, tag |-> "Invalid", branches |-> <<>>,
              errors |-> << <<"more than one subschema succeeded">> >>]
        ELSE IF failures # <<>>
        THEN [panicked |-> FALSE, tag |-> "Invalid",
              branches |-> [i \in 1 .. Len(failures) |-> failures[i].at],
              errors |-> concat_errors(failures)]
        ELSE [panicked |-> TRUE, tag |-> "None", branches |-> <<>>, errors |-> <<>>]

\* apply runs apply_rooted of every alternative (the for loop, lines 167-172).
apply_evaluated(self, instance) == Indices(self)

(***************************************************************************)
(* Standalone discriminator keyword                                        *)
(***************************************************************************)
DPanic == [status |-> "panic", error |-> "", validator |-> NoDiscriminator]
DErr(kind) == [status |-> "err", error |-> kind, validator |-> NoDiscriminator]
DOk(v) == [status |-> "ok", error |-> "", validator |-> v]

\* compile_mapping: a reference string that ref_::compile accepts becomes a
\* node; anything else is a type error.
compile_mapping(value, targets) ==
    IF is_some(as_str(value)) /\ targets[value].resolves
    THEN Some([accepts |-> targets[value].accepts, path |-> <<"discriminator", "test">>])
    ELSE None

DiscriminatorValidator_compile(discriminator, targets) ==
    IF discriminator.object
    THEN IF discriminator.propertyName \in {"absent", "nonstring"}
         THEN DPanic
         ELSE IF discriminator.mapping \in {"absent", "notobject"}
         THEN DPanic
         ELSE IF \E k \in DOMAIN discriminator.entries :
                    ~is_some(compile_mapping(discriminator.entries[k], targets))
         THEN DErr("TypeMismatch")
         ELSE DOk([schema_path |-> <<"discriminator">>,
                   property_name |-> discriminator.propertyName,
                   mapping |-> [k \in DOMAIN discriminator.entries |->
                                  unwrap(compile_mapping(discriminator.entries[k], targets))]])
    ELSE DErr("TypeMismatch")

\* The keyword factory (lines 145-176): an unresolved fragment and every
\* error of DiscriminatorValidator::compile become a type error.
discriminator_compile(discriminator, targets) ==
    IF ~discriminator.found
    THEN DErr("TypeMismatchArray")
    ELSE LET r == DiscriminatorValidator_compile(discriminator, targets)
         IN  IF r.status = "err" THEN DErr("TypeMismatchArray") ELSE r

\* Returns the error sequence, or panics on an expect().
Discriminator_get_discriminated_valid(self, instance) ==
    LET schema_name == get(instance, self.property_name)
    IN  IF is_some(schema_name)
        THEN LET name == as_str(unwrap(schema_name))
             IN  IF ~is_some(name)
                 THEN [panicked |-> TRUE, errors |-> <<>>]
                 ELSE IF unwrap(name) \notin DOMAIN self.mapping
                 THEN [panicked |-> TRUE, errors |-> <<>>]
                 ELSE [panicked |-> FALSE,
                       errors |-> node_validate(self.mapping[unwrap(name)], instance)]
        ELSE [panicked |-> FALSE,
              errors |-> error([kind |-> "OneOfNotValid", schema_path |-> self.schema_path])]

Discriminator_is_valid(self, instance) == FALSE

Discriminator_validate(self, instance) == Discriminator_get_discriminated_valid(self, instance)

Discriminator_apply(self, instance) ==
    [panicked |-> FALSE, tag |-> "Invalid", branches |-> <<>>,
     errors |-> << <<"unimplemented">> >>]

(***************************************************************************)
(* State machine: a keyword is compiled once, then the compiled validator  *)
(* is called on instances, one synchronous call after the other.  A panic  *)
(* aborts the process.                                                     *)
(***************************************************************************)
VARIABLES
    pc,             \* "start", "oneOf", "discriminator", "compile_error", "aborted"
    input,          \* what compile was given
    compile_error,  \* the kind of the compile error, "" if none
    oneOf,          \* the compiled OneOfValidator
    discriminator,  \* the compiled DiscriminatorValidator
    call            \* the last validation call and what it returned

vars == <<pc, input, compile_error, oneOf, discriminator, call>>

NoInstance == [obj |-> FALSE, kind |-> "absent", payload |-> "p"]
NoInput ==
    [keyword |-> "none", schema |-> [array |-> FALSE, items |-> <<>>],
     discriminator |-> [found |-> FALSE, object |-> FALSE, propertyName |-> "absent",
                        mapping |-> "absent", entries |-> NoEntries]]
NoCall ==
    [op |-> "none", instance |-> NoInstance, panicked |-> FALSE, verdict |-> FALSE,
     errors |-> <<>>, output |-> NoOutput, evaluated |-> {}]

Init ==
    /\ pc = "start"
    /\ input = NoInput
    /\ compile_error = ""
    /\ oneOf = NoOneOf
    /\ discriminator = NoDiscriminator
    /\ call = NoCall

CompileOneOf ==
    /\ pc = "start"
    /\ \E schema \in OneOfSchemas, d \in Discriminators :
         LET r == OneOfValidator_compile(schema, d)
         IN  /\ input' = [keyword |-> "oneOf", schema |-> schema, discriminator |-> d]
             /\ pc' = CASE r.status = "ok" -> "oneOf"
                        [] r.status = "err" -> "compile_error"
                        [] OTHER -> "aborted"
             /\ compile_error' = r.error
             /\ oneOf' = r.validator
    /\ UNCHANGED <<discriminator, call>>

CompileDiscriminator ==
    /\ pc = "start"
    /\ \E d \in Discriminators, targets \in RefTargets :
         LET r == discriminator_compile(d, targets)
         IN  /\ input' = [keyword |-> "discriminator",
                          schema |-> [array |-> FALSE, items |-> <<>>], discriminator |-> d]
             /\ pc' = CASE r.status = "ok" -> "discriminator"
                        [] r.status = "err" -> "compile_error"
                        [] OTHER -> "aborted"
             /\ compile_error' = r.error
             /\ discriminator' = r.validator
    /\ UNCHANGED <<oneOf, call>>

OneOfIsValid ==
    /\ pc = "oneOf"
    /\ call.op = "none"
    /\ \E instance \in Instances :
         call' = [NoCall EXCEPT !.op = "is_valid", !.instance = instance,
                                !.verdict = OneOf_is_valid(oneOf, instance)]
    /\ UNCHANGED <<pc, input, compile_error, oneOf, discriminator>>

OneOfValidate ==
    /\ pc = "oneOf"
    /\ call.op = "none"
    /\ \E instance \in Instances :
         call' = [NoCall EXCEPT !.op = "validate", !.instance = instance,
                                !.errors = OneOf_validate(oneOf, instance),
                                !.evaluated = validate_evaluated(oneOf, instance)]
    /\ UNCHANGED <<pc, input, compile_error, oneOf, discriminator>>

OneOfApply ==
    /\ pc = "oneOf"
    /\ call.op = "none"
    /\ \E instance \in Instances :
         LET output == OneOf_apply(oneOf, instance)
         IN  /\ call' = [NoCall EXCEPT !.op = "apply", !.instance = instance,
                                       !.panicked = output.panicked,
                                       !.output = output,
                                       !.evaluated = apply_evaluated(oneOf, instance)]
             /\ pc' = IF output.panicked THEN "aborted" ELSE pc
    /\ UNCHANGED <<input, compile_error, oneOf, discriminator>>

DiscriminatorIsValid ==
    /\ pc = "discriminator"
    /\ call.op = "none"
    /\ \E instance \in Instances :
         call' = [NoCall EXCEPT !.op = "is_valid", !.instance = instance,
                                !.verdict = Discriminator_is_valid(discriminator, instance)]
    /\ UNCHANGED <<pc, input, compile_error, oneOf, discriminator>>

DiscriminatorValidate ==
    /\ pc = "discriminator"
    /\ call.op = "none"
    /\ \E instance \in Instances :
         LET r == Discriminator_validate(discriminator, instance)
         IN  /\ call' = [NoCall EXCEPT !.op = "validate", !.instance = instance,
                                       !.panicked = r.panicked, !.errors = r.errors]
             /\ pc' = IF r.panicked THEN "aborted" ELSE pc
    /\ UNCHANGED <<input, compile_error, oneOf, discriminator>>

DiscriminatorApply ==
    /\ pc = "discriminator"
    /\ call.op = "none"
    /\ \E instance \in Instances :
         call' = [NoCall EXCEPT !.op = "apply", !.instance = instance,
                                !.output = Discriminator_apply(discriminator, instance)]
    /\ UNCHANGED <<pc, input, compile_error, oneOf, discriminator>>

\* The call returns to its caller; the validator is ready for the next one.
Return ==
    /\ pc \in {"oneOf", "discriminator"}
    /\ call.op # "none"
    /\ call' = NoCall
    /\ UNCHANGED <<pc, input, compile_error, oneOf, discriminator>>

Next ==
    \/ CompileOneOf
    \/ CompileDiscriminator
    \/ OneOfIsValid
    \/ OneOfValidate
    \/ OneOfApply
    \/ DiscriminatorIsValid
    \/ DiscriminatorValidate
    \/ DiscriminatorApply
    \/ Return

Spec == Init /\ [][Next]_vars

(***************************************************************************)
(* Properties                                                              *)
(***************************************************************************)
\* The alternatives that accept the instance, each checked on its own.
Accepting(self, instance) ==
    { idx \in Indices(self) : instance.payload \in self.schemas[idx + 1].accepts }

HasDescriptor(self) == self.discriminator_property_name # None

OneOfCalled(op) == input.keyword = "oneOf" /\ call.op = op
DiscriminatorCalled(op) == input.keyword = "discriminator" /\ call.op = op

\* compile panicked: the process aborted before any call was made.
CompilePanicked == pc = "aborted" /\ call.op = "none"
CompileSucceeded == pc # "start" /\ compile_error = "" /\ ~CompilePanicked

\* The errors the exhaustive path is specified to give.
ExhaustiveErrors(instance, n) ==
    IF n = 0 THEN <<[kind |-> "OneOfNotValid", schema_path |-> <<"oneOf">>]>>
    ELSE IF n >= 2 THEN <<[kind |-> "OneOfMultipleValid", schema_path |-> <<"oneOf">>]>>
    ELSE <<>>

\* The discriminator names a string with a mapping entry whose reference is
\* in the dispatch index.
Dispatches(self, instance) ==
    /\ HasDescriptor(self)
    /\ instance.obj
    /\ instance.kind \in Tags
    /\ instance.kind \in DOMAIN self.discriminated_mapping
    /\ self.discriminated_mapping[instance.kind] \in DOMAIN self.discriminated_schemas

\* C1: without a discriminator, is_valid is true iff exactly one alternative
\* accepts the instance; none and two or more both give false.
C1_ExactlyOne ==
    (OneOfCalled("is_valid") /\ ~HasDescriptor(oneOf))
        => (call.verdict <=> Cardinality(Accepting(oneOf, call.instance)) = 1)

C1_Witness ==
    /\ OneOfCalled("is_valid")
    /\ ~HasDescriptor(oneOf)
    /\ Cardinality(Accepting(oneOf, call.instance)) = 2
    /\ ~call.verdict

\* C2: with or without a discriminator, is_valid is false iff validate
\* yields at least one error.
C2_BooleanAgreesWithErrors ==
    OneOfCalled("validate")
        => ((call.errors # <<>>) <=> ~OneOf_is_valid(oneOf, call.instance))

\* C3: on the exhaustive path validate yields one OneOfNotValid error when
\* no alternative accepts, one OneOfMultipleValid error when two or more
\* accept, no error when exactly one accepts; the errors are at "/oneOf".
C3_ExhaustiveErrors ==
    (OneOfCalled("validate") /\ ~Dispatches(oneOf, call.instance))
        => call.errors =
             ExhaustiveErrors(call.instance, Cardinality(Accepting(oneOf, call.instance)))

C3_Witness ==
    /\ OneOfCalled("validate")
    /\ ~Dispatches(oneOf, call.instance)
    /\ Cardinality(Accepting(oneOf, call.instance)) = 2
    /\ call.errors = <<[kind |-> "OneOfMultipleValid", schema_path |-> <<"oneOf">>]>>

\* C4: with a descriptor, an instance that is not an object, lacks the
\* property, has a non-string value, an unmapped string or a reference
\* outside the dispatch index gets exactly the exhaustive verdict and no
\* abort.
C4_FallbackIsExhaustive ==
    (/\ OneOfCalled("validate")
     /\ HasDescriptor(oneOf)
     /\ \/ ~call.instance.obj
        \/ call.instance.kind = "absent"
        \/ call.instance.kind = "nonstring"
        \/ call.instance.kind \notin DOMAIN oneOf.discriminated_mapping
        \/ oneOf.discriminated_mapping[call.instance.kind]
              \notin DOMAIN oneOf.discriminated_schemas)
        => /\ ~call.panicked
           /\ pc = "oneOf"
           /\ call.errors =
                ExhaustiveErrors(call.instance, Cardinality(Accepting(oneOf, call.instance)))

C4_Witness ==
    /\ OneOfCalled("validate")
    /\ HasDescriptor(oneOf)
    /\ DOMAIN oneOf.discriminated_schemas # {}
    /\ DOMAIN oneOf.discriminated_mapping # {}
    /\ call.instance.kind = "z"
    /\ Cardinality(Accepting(oneOf, call.instance)) = 1
    /\ call.errors = <<>>

\* C5: when the discriminator dispatches to position k, validate returns
\* the errors of alternative k, evaluates no other alternative and reports
\* neither OneOfMultipleValid nor OneOfNotValid.
C5_DispatchIsAuthoritative ==
    (OneOfCalled("validate") /\ Dispatches(oneOf, call.instance))
        => LET k == oneOf.discriminated_schemas[oneOf.discriminated_mapping[call.instance.kind]]
           IN  /\ k \in Indices(oneOf)
               /\ call.errors = node_validate(oneOf.schemas[k + 1], call.instance)
               /\ call.evaluated = {k}
               /\ \A i \in 1 .. Len(call.errors) :
                     call.errors[i].kind \notin {"OneOfMultipleValid", "OneOfNotValid"}

C5_Witness ==
    /\ OneOfCalled("validate")
    /\ Dispatches(oneOf, call.instance)
    /\ Cardinality(Accepting(oneOf, call.instance)) = 2
    /\ call.errors = <<>>

\* C6: the standalone discriminator reports OneOfNotValid, without
\* aborting, when the property is missing or its value has no mapping entry.
C6_UnmappedIsNotValid ==
    (/\ DiscriminatorCalled("validate")
     /\ \/ get(call.instance, discriminator.property_name) = None
        \/ call.instance.kind \notin DOMAIN discriminator.mapping)
        => /\ ~call.panicked
           /\ call.errors = <<[kind |-> "OneOfNotValid", schema_path |-> <<"discriminator">>]>>

\* C7: when the property is present and mapped, validate yields the
\* target's errors and is_valid is true exactly when the target accepts.
C7_DelegatesToTarget ==
    (/\ input.keyword = "discriminator"
     /\ call.op \in {"validate", "is_valid"}
     /\ call.instance.obj
     /\ call.instance.kind \in DOMAIN discriminator.mapping)
        => LET target == discriminator.mapping[call.instance.kind]
           IN  /\ call.op = "validate"
                     => call.errors = node_validate(target, call.instance)
               /\ call.op = "is_valid"
                     => (call.verdict <=> node_is_valid(target, call.instance))

\* C8: a resolved but malformed discriminator makes compile return an
\* error and never panic; without a discriminator compile succeeds with no
\* descriptor.
Malformed(d, items) ==
    \/ d.propertyName = "nonstring"
    \/ d.mapping \in {"absent", "notobject"}
    \/ \E k \in DOMAIN d.entries : d.entries[k] = "nonstring"
    \/ \E i \in 1 .. Len(items) : items[i].ref = "nonstring"

C8_MalformedIsCompileError ==
    (input.keyword = "oneOf" /\ input.schema.array)
        => /\ (input.discriminator.found
                 /\ Malformed(input.discriminator, input.schema.items))
                 => (compile_error # "" /\ ~CompilePanicked)
           /\ (~input.discriminator.found
                 /\ \A i \in 1 .. Len(input.schema.items) : input.schema.items[i].compiles)
                 => (CompileSucceeded /\ ~HasDescriptor(oneOf))

\* C9: every keyword value that is not an array of at least one sub-schema
\* is a TypeMismatch(Array) compile error, so no compiled validator has
\* zero alternatives and apply never reaches its last branch.
C9_EmptyIsCompileError ==
    /\ (input.keyword = "oneOf"
          /\ (~input.schema.array \/ Len(input.schema.items) = 0))
          => (pc = "compile_error" /\ compile_error = "TypeMismatchArray")
    /\ (input.keyword = "oneOf" /\ CompileSucceeded)
          => Len(oneOf.schemas) >= 1
    /\ OneOfCalled("apply") => ~call.panicked

\* C10: apply evaluates every alternative and returns the passing branch
\* when exactly one passes, an ambiguity failure when several pass, the sum
\* of the failures when none passes; without a discriminator its verdict is
\* that of is_valid.
C10_ApplyAgreesWithIsValid ==
    OneOfCalled("apply")
        => LET passing == Accepting(oneOf, call.instance)
               n == Cardinality(passing)
           IN  /\ ~call.panicked
               /\ call.evaluated = Indices(oneOf)
               /\ n = 1 => /\ call.output.tag = "Valid"
                           /\ \A k \in passing :
                                 call.output.branches = <<oneOf.schemas[k + 1].path>>
               /\ n >= 2 => /\ call.output.tag = "Invalid"
                            /\ call.output.branches = <<>>
               /\ n = 0 => /\ call.output.tag = "Invalid"
                           /\ Len(call.output.branches) = Len(oneOf.schemas)
               /\ ~HasDescriptor(oneOf)
                     => ((call.output.tag = "Valid") <=> OneOf_is_valid(oneOf, call.instance))

\* With at least one alternative and no descriptor, apply does not abort
\* and its verdict is that of is_valid.
ApplyAgreesWhenNonEmpty ==
    (OneOfCalled("apply") /\ Len(oneOf.schemas) >= 1)
        => LET n == Cardinality(Accepting(oneOf, call.instance))
           IN  /\ ~call.panicked
               /\ (call.output.tag = "Valid") <=> (n = 1)
               /\ ~HasDescriptor(oneOf)
                     => ((call.output.tag = "Valid") <=> OneOf_is_valid(oneOf, call.instance))

====
